---- MODULE Spec2Model ----
(***************************************************************************)
(* Bar-driven simulation core of the DCA + tactical ("do-T") backtester:   *)
(* the strategy variants v1 (DcaTradingStrategy), v2 (DcaTradingStrategyV2)*)
(* and DCA-only (DcaOnlyStrategy), their position ledger, trade logs and   *)
(* daily NAV series; and the engine that feeds them (BacktestEngine) with  *)
(* the batch drivers that call it.  Spec drives a strategy bar by bar;     *)
(* EngineSpec drives the engine call by call.                              *)
(*                                                                         *)
(* Numbers.  The Python code computes with floats; the model computes the  *)
(* same expressions over exact rationals <<numerator, denominator>> kept   *)
(* in lowest terms, so rounding error is not part of the model.            *)
(* One strategy instance is fed the bars of one symbol, as every driver of *)
(* the repository does, so the per-symbol dictionaries (dca_positions,     *)
(* t_positions, _sell_count) are modelled by their single entry.           *)
(***************************************************************************)
EXTENDS Integers, Sequences, FiniteSets, TLC

VARIABLES
    params,        \* self.params / the constructor arguments of the strategy
    dca_cash,      \* self.dca_cash
    t_cash,        \* self.t_cash
    dca_position,  \* self.dca_positions[symbol]
    t_position,    \* self.t_positions[symbol]
    sell_count,    \* self._sell_count[symbol] (absent = 0)
    trades,        \* self.trades
    dca_trades,    \* self.dca_trades
    t_trades,      \* self.t_trades
    daily_nav,     \* self.daily_nav
    feed,          \* the family of bar series the run is fed from
    today,         \* date of the last bar fed (day number, day 0 is a Monday)
    bars_fed,      \* number of on_bar calls made so far
    last_bar,      \* close and ATR of the bar last handed to on_bar
    provider,      \* what the data provider has stored, per symbol and for the benchmark
    engine,        \* BacktestEngine: index_data_cache and index_data_date_range
    index_fetches, \* date ranges of the get_data('000001.SH', ...) calls made
    calls,         \* the run_backtest calls made, each with its outcome
    driver,        \* who calls run_backtest
    pending,       \* symbols the batch has not run yet
    results,       \* the batch's list of successes
    failed_symbols, \* the batch's list of failures
    saved          \* what save_results has written, one record per call

vars == <<params, dca_cash, t_cash, dca_position, t_position, sell_count,
          trades, dca_trades, t_trades, daily_nav, feed, today, bars_fed,
          last_bar, provider, engine, index_fetches, calls, driver, pending,
          results, failed_symbols, saved>>

\* the engine and batch state
evars == <<provider, engine, index_fetches, calls, driver, pending, results,
           failed_symbols, saved>>

-----------------------------------------------------------------------------
(* Exact rational arithmetic standing for the float expressions.           *)

Abs(x) == IF x < 0 THEN -x ELSE x

RECURSIVE GCD(_, _)
GCD(a, b) == IF b = 0 THEN a ELSE GCD(b, a % b)

\* float NaN, the value a rolling statistic has inside its window: every
\* ordering test and every equality with a number is false of it, and
\* arithmetic on it gives it back
NaN == <<0, 0>>
IsNaN(x) == x[2] = 0

Norm(n, d) ==
    IF d = 0 THEN NaN
    ELSE LET g == GCD(Abs(n), Abs(d))
             s == IF d < 0 THEN -1 ELSE 1
         IN  <<(s * n) \div g, (s * d) \div g>>

R(n, d) == Norm(n, d)

Zero == R(0, 1)
One == R(1, 1)

RAdd(x, y) == Norm(x[1] * y[2] + y[1] * x[2], x[2] * y[2])
RSub(x, y) == Norm(x[1] * y[2] - y[1] * x[2], x[2] * y[2])
RMul(x, y) ==
    LET a == Norm(x[1], y[2])
        b == Norm(y[1], x[2])
    IN  Norm(a[1] * b[1], a[2] * b[2])
RDiv(x, y) == RMul(x, Norm(y[2], y[1]))
RLt(x, y) == x[1] * y[2] < y[1] * x[2]
RGt(x, y) == RLt(y, x)
RGe(x, y) == ~IsNaN(x) /\ ~IsNaN(y) /\ ~RLt(x, y)
RMax(x, y) == IF RLt(x, y) THEN y ELSE x

\* Python int(): truncation toward zero
Trunc(x) == IF x[1] >= 0 THEN x[1] \div x[2] ELSE -((-x[1]) \div x[2])

-----------------------------------------------------------------------------
(* Program constants.                                                      *)

MinCommission == 5
LotSize == 100
MaxDcaSells == 3
NoDate == -1

-----------------------------------------------------------------------------
(* Bounds of the model.                                                    *)

MaxBarsDca == 5
MaxBarsT == 3
MaxCalls == 3

-----------------------------------------------------------------------------
(* Constructor arguments.  They are inputs of a run (every driver passes   *)
(* its own), chosen here so that a handful of bars reaches every rule:     *)
(* the capital is small enough for the accumulation book to become fully   *)
(* invested, and the commission rate puts trade amounts on both sides of   *)
(* the 5-yuan floor.                                                       *)

V1Params ==
    [variant |-> "v1",
     total_capital |-> R(2100, 1),
     dca_ratio |-> R(1, 2),
     dca_amount_per_week |-> R(1000, 1),
     t_amount_per_trade |-> R(400, 1),
     max_loss_ratio |-> R(3, 100),
     profit_target |-> R(1, 100),
     commission |-> R(1, 100),
     slippage |-> R(1, 1000)]

V2Params ==
    [variant |-> "v2",
     total_capital |-> R(2100, 1),
     dca_ratio |-> R(1, 2),
     base_dca_amount_per_week |-> R(1000, 1),
     base_t_amount_per_trade |-> R(400, 1),
     max_loss_ratio |-> R(3, 100),
     profit_target |-> R(1, 100),
     commission |-> R(1, 100),
     slippage |-> R(1, 1000)]

DcaOnlyParams ==
    [variant |-> "dca_only",
     total_capital |-> R(1010, 1),
     dca_amount_per_week |-> R(500, 1),
     profit_target |-> R(1, 5),
     commission |-> R(1, 100),
     slippage |-> R(1, 1000)]

-----------------------------------------------------------------------------
(* Bars.  A bar is the dict handed to on_bar: the close and the indicator  *)
(* columns the strategies read.  The date is passed beside it.             *)

DateGaps == {1, 7}

Weekday(date) == date % 7

\* (macd_hist, macd_hist_prev, macd_hist_prev2)
MacdFlat == <<Zero, Zero, Zero>>
MacdPosFalling == <<R(1, 100), R(2, 100), R(1, 100)>>
MacdNegReversing == <<R(-1, 100), R(0, 1), R(-2, 100)>>

\* a regime flag as the left join with the benchmark leaves it in the bar:
\* the benchmark's boolean on a date the benchmark has a row for, NaN on a
\* date it has none for (regime "join_miss")
JoinedFlag(regime, flag) ==
    IF regime = "join_miss" THEN "nan"
    ELSE IF regime = flag THEN "True" ELSE "False"

\* the truth value Python gives a flag in a condition: NaN is a non-zero float
Truthy(v) == v # "False"

Bar(close, macd, volume_ratio, is_yang, atr, ma5, ma10, trend, regime) ==
    [close |-> close,
     macd_hist |-> macd[1],
     macd_hist_prev |-> macd[2],
     macd_hist_prev2 |-> macd[3],
     volume_ratio |-> volume_ratio,
     is_volume_surge |-> RGt(volume_ratio, R(15, 10)),
     is_yang |-> is_yang,
     atr |-> atr,
     ma5 |-> ma5,
     ma10 |-> ma10,
     is_uptrend |-> trend = "up",
     is_downtrend |-> trend = "down",
     index_data |-> [drop_2_rebound_03 |-> JoinedFlag(regime, "drop_2_rebound_03"),
                     drop_1_rebound_02 |-> JoinedFlag(regime, "drop_1_rebound_02")]]

\* before the first bar
NoBar == Bar(Zero, MacdFlat, One, FALSE, Zero, Zero, Zero, "none", "none")

\* the part of a bar the properties look back at
Seen(bar) ==
    [close |-> bar.close, atr |-> bar.atr]

\* bars that exercise the accumulation rules (tactical signals silent)
DcaFeedV1 ==
    { Bar(R(c, 1), m, R(v, 1), FALSE, Zero, Zero, Zero, "none", "none") :
        c \in {1, 2, 4}, m \in {MacdFlat, MacdPosFalling}, v \in {1, 2} }

\* the MACD shape, candle colour, ma5 and index regime of the tactical bars
TSignals ==
    { <<MacdFlat, FALSE, Zero, "none">>,
      <<MacdPosFalling, FALSE, Zero, "none">>,
      <<MacdPosFalling, FALSE, R(5, 2), "none">>,
      <<MacdNegReversing, FALSE, Zero, "none">>,
      <<MacdNegReversing, TRUE, Zero, "none">>,
      <<MacdFlat, FALSE, Zero, "drop_2_rebound_03">>,
      <<MacdFlat, FALSE, Zero, "drop_1_rebound_02">>,
      <<MacdPosFalling, FALSE, R(5, 2), "drop_1_rebound_02">>,
      <<MacdFlat, FALSE, Zero, "join_miss">> }

\* bars that exercise the tactical rules
TFeedV1 ==
    { Bar(R(x[1], 1), x[2][1], One, x[2][2], x[3], x[2][3], Zero, "none", x[2][4]) :
        x \in {1, 2} \X TSignals \X {Zero, R(5, 100)} }

DcaFeedV2 ==
    { Bar(R(x[1], 1), x[2][1], R(x[2][2], 1), FALSE, x[3], Zero, Zero, x[2][3], "none") :
        x \in {1, 2, 4}
              \X { <<MacdFlat, 1, "none">>, <<MacdPosFalling, 2, "none">>,
                   <<MacdPosFalling, 1, "down">>, <<MacdNegReversing, 1, "none">> }
              \X {R(5, 100)} }

TFeedV2 ==
    { Bar(R(x[1], 1), x[2][1], R(x[4][1], 1), x[2][2], x[3], x[2][3], Zero,
          x[4][2], x[2][4]) :
        x \in {1, 2} \X TSignals \X {Zero, R(5, 100)}
              \X {<<1, "none">>, <<2, "up">>} }

\* DCA-only reads the close and ma10 alone
DcaOnlyFeed ==
    { Bar(R(c, 1), MacdFlat, One, FALSE, Zero, Zero, R(m, 1), "none", "none") :
        c \in {1, 2}, m \in {0, 3} }

\* quiet bars at a low and at a high price, and a high-priced bar on which
\* the benchmark signals a tactical entry
PriceFeed ==
    { Bar(R(c, 1), MacdFlat, One, FALSE, Zero, Zero, Zero, "none", "none") :
        c \in {2, 16} }
    \cup { Bar(R(16, 1), MacdFlat, One, FALSE, Zero, Zero, Zero, "none",
               "drop_1_rebound_02") }

\* a rise of a quarter on heavy volume with the MACD histogram falling, after
\* a quiet bar
ExitFeed ==
    { Bar(One, MacdFlat, One, FALSE, Zero, Zero, Zero, "none", "none"),
      Bar(R(5, 4), MacdPosFalling, R(2, 1), FALSE, Zero, Zero, Zero, "none",
          "none") }

\* quiet bars in every volatility band: ATR 0.05 at closes 1, 2, 4 and 16
\* (ATR ratios 5%, 2.5%, 1.25% and 0.3%), and a bar without an ATR
AtrFeed ==
    { Bar(R(c, 1), MacdFlat, One, FALSE, R(5, 100), Zero, Zero, "none", "none") :
        c \in {1, 2, 4, 16} }
    \cup { Bar(R(2, 1), MacdFlat, One, FALSE, Zero, Zero, Zero, "none", "none") }

\* rows of the first weeks of a series, inside the windows of ATR (14), MA5
\* (5), the trend averages and the volume ratio (20): the first row, whose
\* MACD histogram has no previous value, and a later row after a rise, the
\* histogram below zero
WarmUpFeed ==
    { Bar(One, <<Zero, NaN, NaN>>, NaN, FALSE, NaN, NaN, Zero, "none", "none"),
      Bar(R(2, 1), <<R(-1, 100), Zero, NaN>>, NaN, TRUE, NaN, NaN, Zero, "none",
          "none") }

\* capital for two weekly contributions
TwoWeeksParams == [V1Params EXCEPT !.total_capital = R(4000, 1)]

Runs ==
    { [params |-> V1Params, feed |-> "dca"],
      [params |-> TwoWeeksParams, feed |-> "exit"],
      [params |-> V2Params, feed |-> "atr"],
      [params |-> V1Params, feed |-> "warmup"],
      [params |-> V2Params, feed |-> "warmup"],
      [params |-> V1Params, feed |-> "price"],
      [params |-> V2Params, feed |-> "price"],
      [params |-> V1Params, feed |-> "t"],
      [params |-> V2Params, feed |-> "dca"],
      [params |-> V2Params, feed |-> "t"],
      [params |-> DcaOnlyParams, feed |-> "dca"] }

Bars(variant, f) ==
    CASE f = "price" -> PriceFeed
      [] f = "exit" -> ExitFeed
      [] f = "atr" -> AtrFeed
      [] f = "warmup" -> WarmUpFeed
      [] variant = "v1" /\ f = "dca" -> DcaFeedV1
      [] variant = "v1" /\ f = "t" -> TFeedV1
      [] variant = "v2" /\ f = "dca" -> DcaFeedV2
      [] variant = "v2" /\ f = "t" -> TFeedV2
      [] variant = "dca_only" -> DcaOnlyFeed

MaxBars(f) == IF f = "dca" THEN MaxBarsDca ELSE MaxBarsT

-----------------------------------------------------------------------------
(* The strategy object as a record, so that the methods compose.           *)

Self ==
    [dca_cash |-> dca_cash, t_cash |-> t_cash,
     dca_position |-> dca_position, t_position |-> t_position,
     sell_count |-> sell_count,
     trades |-> trades, dca_trades |-> dca_trades, t_trades |-> t_trades,
     daily_nav |-> daily_nav]

FlatDca == [shares |-> Zero, cost |-> Zero, avg_price |-> Zero]
FlatT == [shares |-> Zero, cost |-> Zero, avg_price |-> Zero, entry_date |-> NoDate]

-----------------------------------------------------------------------------
(* Ledger operations (v1; v2 repeats them verbatim).                        *)

\* fault seeded for CommissionFloor: the minimum fee is forgotten
CalculateCommissionNoFloor(p, amount) ==
    RMul(amount, p.commission)

CalculateCommission(p, amount) ==
    RMax(RMul(amount, p.commission), R(MinCommission, 1))

CalculateShares(p, amount, price) ==
    LET actual_price == RMul(price, RAdd(One, p.slippage))
        commission == CalculateCommission(p, amount)
        available_amount == RSub(amount, commission)
        shares == RDiv(available_amount, actual_price)
    IN  R(Trunc(RDiv(shares, R(LotSize, 1))) * LotSize, 1)

ExecuteBuy(p, s, cash, shares, price, date, strategy) ==
    LET position == IF strategy = "dca" THEN s.dca_position ELSE s.t_position
        amount == RMul(shares, price)
        cost == RAdd(amount, CalculateCommission(p, amount))
        total_shares == RAdd(position.shares, shares)
        total_cost == RAdd(position.cost, cost)
        avg_price == IF RGt(total_shares, Zero)
                     THEN RDiv(total_cost, total_shares) ELSE Zero
        cash_after == RSub(cash, cost)
        trade == [date |-> date, type |-> "buy", strategy |-> strategy,
                  shares |-> shares, price |-> price, amount |-> cost,
                  cash_after |-> cash_after]
    IN  IF strategy = "dca"
        THEN [s EXCEPT !.dca_position = [shares |-> total_shares,
                                          cost |-> total_cost,
                                          avg_price |-> avg_price],
                       !.dca_cash = cash_after,
                       !.dca_trades = Append(@, trade),
                       !.trades = Append(@, trade)]
        ELSE [s EXCEPT !.t_position = [shares |-> total_shares,
                                        cost |-> total_cost,
                                        avg_price |-> avg_price,
                                        entry_date |-> date],
                       !.t_cash = cash_after,
                       !.t_trades = Append(@, trade),
                       !.trades = Append(@, trade)]

\* fault seeded for TacticalTwoState: a close leaves the entry date in place
ExecuteSellKeepsEntryDate(p, s, cash, shares, price, date, strategy) ==
    LET position == IF strategy = "dca" THEN s.dca_position ELSE s.t_position
        amount == RMul(shares, price)
        net_amount == RSub(amount, RMax(RMul(amount, p.commission),
                                        R(MinCommission, 1)))
        cost_amount == RMul(position.cost, RDiv(shares, position.shares))
        new_shares == RSub(position.shares, shares)
        new_cost == RSub(position.cost, cost_amount)
        avg_price == IF RGt(new_shares, Zero)
                     THEN RDiv(new_cost, new_shares) ELSE Zero
        cash_after == RAdd(cash, net_amount)
        trade == [date |-> date, type |-> "sell", strategy |-> strategy,
                  shares |-> shares, price |-> price, amount |-> net_amount,
                  profit |-> RSub(net_amount, cost_amount),
                  cash_after |-> cash_after]
    IN  IF strategy = "dca"
        THEN [s EXCEPT !.dca_position = [shares |-> new_shares,
                                          cost |-> new_cost,
                                          avg_price |-> avg_price],
                       !.dca_cash = cash_after,
                       !.dca_trades = Append(@, trade),
                       !.trades = Append(@, trade)]
        ELSE [s EXCEPT !.t_position = [shares |-> new_shares,
                                        cost |-> new_cost,
                                        avg_price |-> avg_price,
                                        entry_date |-> position.entry_date],
                       !.t_cash = cash_after,
                       !.t_trades = Append(@, trade),
                       !.trades = Append(@, trade)]

\* fault seeded for LedgerConservation: the sale's gross amount, not the
\* sold fraction of the cost, is taken out of the position's cost
ExecuteSellCostByProceeds(p, s, cash, shares, price, date, strategy) ==
    LET position == IF strategy = "dca" THEN s.dca_position ELSE s.t_position
        amount == RMul(shares, price)
        net_amount == RSub(amount, RMax(RMul(amount, p.commission),
                                        R(MinCommission, 1)))
        cost_amount == amount
        new_shares == RSub(position.shares, shares)
        new_cost == RSub(position.cost, cost_amount)
        avg_price == IF RGt(new_shares, Zero)
                     THEN RDiv(new_cost, new_shares) ELSE Zero
        cash_after == RAdd(cash, net_amount)
        trade == [date |-> date, type |-> "sell", strategy |-> strategy,
                  shares |-> shares, price |-> price, amount |-> net_amount,
                  profit |-> RSub(net_amount, cost_amount),
                  cash_after |-> cash_after]
    IN  IF strategy = "dca"
        THEN [s EXCEPT !.dca_position = [shares |-> new_shares,
                                          cost |-> new_cost,
                                          avg_price |-> avg_price],
                       !.dca_cash = cash_after,
                       !.dca_trades = Append(@, trade),
                       !.trades = Append(@, trade)]
        ELSE [s EXCEPT !.t_position = [shares |-> new_shares,
                                        cost |-> new_cost,
                                        avg_price |-> avg_price,
                                        entry_date |-> NoDate],
                       !.t_cash = cash_after,
                       !.t_trades = Append(@, trade),
                       !.trades = Append(@, trade)]

ExecuteSell(p, s, cash, shares, price, date, strategy) ==
    LET position == IF strategy = "dca" THEN s.dca_position ELSE s.t_position
        amount == RMul(shares, price)
        commission == CalculateCommission(p, amount)
        net_amount == RSub(amount, commission)
        cost_ratio == RDiv(shares, position.shares)
        cost_amount == RMul(position.cost, cost_ratio)
        new_shares == RSub(position.shares, shares)
        new_cost == RSub(position.cost, cost_amount)
        avg_price == IF RGt(new_shares, Zero)
                     THEN RDiv(new_cost, new_shares) ELSE Zero
        cash_after == RAdd(cash, net_amount)
        trade == [date |-> date, type |-> "sell", strategy |-> strategy,
                  shares |-> shares, price |-> price, amount |-> net_amount,
                  profit |-> RSub(net_amount, cost_amount),
                  cash_after |-> cash_after]
    IN  IF strategy = "dca"
        THEN [s EXCEPT !.dca_position = [shares |-> new_shares,
                                          cost |-> new_cost,
                                          avg_price |-> avg_price],
                       !.dca_cash = cash_after,
                       !.dca_trades = Append(@, trade),
                       !.trades = Append(@, trade)]
        ELSE [s EXCEPT !.t_position = [shares |-> new_shares,
                                        cost |-> new_cost,
                                        avg_price |-> avg_price,
                                        entry_date |-> NoDate],
                       !.t_cash = cash_after,
                       !.t_trades = Append(@, trade),
                       !.trades = Append(@, trade)]

BuyTFromDcaCash(p, s, shares, price, date) ==
    ExecuteBuy(p, s, s.dca_cash, shares, price, date, "t")

BuyDca(p, s, shares, price, date) ==
    ExecuteBuy(p, s, s.dca_cash, shares, price, date, "dca")
SellDca(p, s, shares, price, date) ==
    ExecuteSell(p, s, s.dca_cash, shares, price, date, "dca")
BuyT(p, s, shares, price, date) ==
    ExecuteBuy(p, s, s.t_cash, shares, price, date, "t")
SellT(p, s, shares, price, date) ==
    ExecuteSell(p, s, s.t_cash, shares, price, date, "t")

\* (shares * price - cost) / cost of a position, 0 when it holds nothing
ProfitRatio(position, price) ==
    IF RGt(position.shares, Zero)
    THEN RDiv(RSub(RMul(position.shares, price), position.cost), position.cost)
    ELSE Zero

\* current_value / (dca_cash + current_value), 0 when the position is empty
PositionRatio(s, price) ==
    IF RGt(s.dca_position.shares, Zero)
    THEN LET current_value == RMul(s.dca_position.shares, price)
         IN  RDiv(current_value, RAdd(s.dca_cash, current_value))
    ELSE Zero

-----------------------------------------------------------------------------
(* v1: DcaTradingStrategy                                                  *)

\* fault seeded for WeeklyEntry: the contribution is made on any weekday
WeeklyBuyV1AnyDay(p, s, bar, date) ==
    LET price == bar.close
        shares == CalculateShares(p, p.dca_amount_per_week, price)
    IN  IF RGe(s.dca_cash, p.dca_amount_per_week) /\ RGt(shares, Zero)
        THEN BuyDca(p, s, shares, price, date)
        ELSE s

\* fault seeded for BuyingAfterSellCap: the liquidation counter gates the
\* contribution too
WeeklyBuyV1Capped(p, s, bar, date) ==
    LET price == bar.close
        shares == CalculateShares(p, p.dca_amount_per_week, price)
    IN  IF Weekday(date) = 0 /\ RGe(s.dca_cash, p.dca_amount_per_week)
           /\ RGt(shares, Zero) /\ s.sell_count < MaxDcaSells
        THEN BuyDca(p, s, shares, price, date)
        ELSE s

\* fault seeded for SizingNoOp: the sized share count is not tested
WeeklyBuyV1NoSharesTest(p, s, bar, date) ==
    LET price == bar.close
        shares == CalculateShares(p, p.dca_amount_per_week, price)
    IN  IF Weekday(date) = 0 /\ RGe(s.dca_cash, p.dca_amount_per_week)
        THEN BuyDca(p, s, shares, price, date)
        ELSE s

\* the weekly contribution of _execute_dca_logic
WeeklyBuyV1(p, s, bar, date) ==
    LET price == bar.close
        shares == CalculateShares(p, p.dca_amount_per_week, price)
    IN  IF Weekday(date) = 0 /\ RGe(s.dca_cash, p.dca_amount_per_week)
           /\ RGt(shares, Zero)
        THEN BuyDca(p, s, shares, price, date)
        ELSE s

ShouldSellV1(s0, s1, bar) ==
    /\ RGt(s1.dca_position.shares, Zero)
    /\ RGt(PositionRatio(s1, bar.close), R(7, 10))
    /\ RGt(ProfitRatio(s0.dca_position, bar.close), R(2, 10))
    /\ RGt(bar.macd_hist, Zero)
    /\ RGt(bar.volume_ratio, R(15, 10))
    /\ RLt(bar.macd_hist, bar.macd_hist_prev)

\* fault seeded for SellCap: the cap is tested with <= instead of <
PartialSellOffByOne(p, s, price, date) ==
    LET sell_shares == RDiv(s.dca_position.shares, R(3, 1))
        sold == ExecuteSell(p, s, s.dca_cash, sell_shares, price, date, "dca")
    IN  IF s.sell_count <= MaxDcaSells /\ RGt(sell_shares, Zero)
        THEN [sold EXCEPT !.sell_count = @ + 1]
        ELSE s

\* the capped partial liquidation shared by v1 and v2
PartialSell(p, s, price, date) ==
    LET sell_shares == RDiv(s.dca_position.shares, R(3, 1))
    IN  IF s.sell_count < MaxDcaSells /\ RGt(sell_shares, Zero)
        THEN [SellDca(p, s, sell_shares, price, date)
                EXCEPT !.sell_count = @ + 1]
        ELSE s

ExecuteDcaLogicV1(p, s, bar, date) ==
    LET s1 == WeeklyBuyV1(p, s, bar, date)
    IN  IF ShouldSellV1(s, s1, bar)
        THEN PartialSell(p, s1, bar.close, date)
        ELSE s1

\* fault seeded for StopLossPriority: the comparison with the stop price
\* is reversed
StopLossV1Reversed(s, bar) ==
    /\ RGt(s.t_position.shares, Zero)
    /\ RGt(bar.atr, Zero)
    /\ RGt(bar.close, RSub(s.t_position.avg_price, RMul(R(2, 1), bar.atr)))

StopLossV1(s, bar) ==
    /\ RGt(s.t_position.shares, Zero)
    /\ RGt(bar.atr, Zero)
    /\ RLt(bar.close, RSub(s.t_position.avg_price, RMul(R(2, 1), bar.atr)))

MomentumExitV1(s, bar) ==
    /\ RGt(s.t_position.shares, Zero)
    /\ RGt(bar.ma5, Zero)
    /\ RGt(bar.macd_hist, Zero)
    /\ RLt(bar.macd_hist, bar.macd_hist_prev)
    /\ RLt(bar.close, bar.ma5)

\* fault seeded for TacticalExclusion: the gate forgets the flat test
TEntryGateV1NoFlatCheck(p, s, bar) ==
    /\ RGe(s.t_cash, p.t_amount_per_trade)
    /\ RGe(RMul(s.dca_position.shares, bar.close), p.t_amount_per_trade)

TEntryGateV1(p, s, bar) ==
    /\ s.t_position.shares = Zero
    /\ RGe(s.t_cash, p.t_amount_per_trade)
    /\ RGe(RMul(s.dca_position.shares, bar.close), p.t_amount_per_trade)

TEntrySignalV1(bar) ==
    \/ Truthy(bar.index_data.drop_2_rebound_03)
    \/ Truthy(bar.index_data.drop_1_rebound_02)
    \/ /\ RLt(bar.macd_hist, Zero)
       /\ RGt(bar.macd_hist_prev, bar.macd_hist_prev2)
       /\ bar.is_yang

ExecuteTLogicV1ReentersAfterExit(p, s, bar, date) ==
    LET price == bar.close
        shares == CalculateShares(p, p.t_amount_per_trade, price)
        s1 == IF StopLossV1(s, bar) \/ MomentumExitV1(s, bar)
              THEN SellT(p, s, s.t_position.shares, price, date)
              ELSE s
    IN  IF TEntryGateV1(p, s1, bar) /\ TEntrySignalV1(bar) /\ RGt(shares, Zero)
        THEN BuyT(p, s1, shares, price, date)
        ELSE s1

ExecuteTLogicV1(p, s, bar, date) ==
    LET price == bar.close
        shares == CalculateShares(p, p.t_amount_per_trade, price)
    IN  IF StopLossV1(s, bar)
        THEN SellT(p, s, s.t_position.shares, price, date)
        ELSE IF MomentumExitV1(s, bar)
        THEN SellT(p, s, s.t_position.shares, price, date)
        ELSE IF TEntryGateV1(p, s, bar) /\ TEntrySignalV1(bar)
                /\ RGt(shares, Zero)
        THEN BuyT(p, s, shares, price, date)
        ELSE s

\* fault seeded for NavReconciliation: the tactical holding is left out of
\* the total
NavRowV1NoTValue(p, s, bar, date) ==
    LET price == bar.close
        dca_value == RMul(s.dca_position.shares, price)
        t_value == RMul(s.t_position.shares, price)
        total_value == RAdd(RAdd(s.dca_cash, s.t_cash), dca_value)
    IN  [date |-> date, dca_cash |-> s.dca_cash, t_cash |-> s.t_cash,
         dca_value |-> dca_value, t_value |-> t_value,
         total_value |-> total_value,
         total_return |-> RDiv(RSub(total_value, p.total_capital), p.total_capital)]

NavRowV1(p, s, bar, date) ==
    LET price == bar.close
        dca_value == RMul(s.dca_position.shares, price)
        t_value == RMul(s.t_position.shares, price)
        total_value == RAdd(RAdd(s.dca_cash, s.t_cash), RAdd(dca_value, t_value))
    IN  [date |-> date, dca_cash |-> s.dca_cash, t_cash |-> s.t_cash,
         dca_value |-> dca_value, t_value |-> t_value,
         total_value |-> total_value,
         total_return |-> RDiv(RSub(total_value, p.total_capital), p.total_capital)]

RecordDailyNavV1(p, s, bar, date) ==
    [s EXCEPT !.daily_nav = Append(@, NavRowV1(p, s, bar, date))]

OnBarResultV1(p, s, bar, date) ==
    RecordDailyNavV1(p,
        ExecuteTLogicV1(p, ExecuteDcaLogicV1(p, s, bar, date), bar, date),
        bar, date)

-----------------------------------------------------------------------------
(* v2: DcaTradingStrategyV2                                                *)

\* the volatility band every dynamic parameter is scaled by:
\* "flat" when atr == 0 or price == 0, else by atr / price
AtrBand(bar) ==
    IF bar.atr = Zero \/ bar.close = Zero THEN "flat"
    ELSE LET atr_ratio == RDiv(bar.atr, bar.close)
         IN  IF RGt(atr_ratio, R(3, 100)) THEN "high"
             ELSE IF RGt(atr_ratio, R(2, 100)) THEN "mid"
             ELSE IF RLt(atr_ratio, R(1, 100)) THEN "low"
             ELSE "normal"

CalculateDynamicDcaAmount(p, bar) ==
    LET band == AtrBand(bar)
    IN  IF band = "high" THEN RMul(p.base_dca_amount_per_week, R(7, 10))
        ELSE IF band = "mid" THEN RMul(p.base_dca_amount_per_week, R(85, 100))
        ELSE IF band = "low" THEN RMul(p.base_dca_amount_per_week, R(115, 100))
        ELSE p.base_dca_amount_per_week

CalculateDynamicTAmount(p, bar) ==
    LET band == AtrBand(bar)
        scaled == IF band = "high" THEN RMul(p.base_t_amount_per_trade, R(7, 10))
                  ELSE IF band = "mid" THEN RMul(p.base_t_amount_per_trade, R(85, 100))
                  ELSE IF band = "low" THEN RMul(p.base_t_amount_per_trade, R(115, 100))
                  ELSE p.base_t_amount_per_trade
    IN  IF band = "flat" THEN p.base_t_amount_per_trade
        ELSE IF bar.is_uptrend THEN RMul(scaled, R(11, 10))
        ELSE IF bar.is_downtrend THEN RMul(scaled, R(9, 10))
        ELSE scaled

\* fault seeded for DynamicScaling: the stop is tightened, not widened, as
\* volatility rises
CalculateDynamicStopLossMultiplierInverse(bar) ==
    LET band == AtrBand(bar)
    IN  IF band = "high" THEN R(15, 10)
        ELSE IF band = "mid" THEN R(18, 10)
        ELSE IF band = "low" THEN R(25, 10)
        ELSE R(2, 1)

CalculateDynamicStopLossMultiplier(bar) ==
    LET band == AtrBand(bar)
    IN  IF band = "high" THEN R(25, 10)
        ELSE IF band = "mid" THEN R(22, 10)
        ELSE IF band = "low" THEN R(15, 10)
        ELSE R(2, 1)

CalculateDynamicProfitTarget(p, bar) ==
    LET band == AtrBand(bar)
    IN  IF band = "high" THEN RMul(p.profit_target, R(13, 10))
        ELSE IF band = "mid" THEN RMul(p.profit_target, R(115, 100))
        ELSE IF band = "low" THEN RMul(p.profit_target, R(85, 100))
        ELSE p.profit_target

WeeklyBuyV2(p, s, bar, date) ==
    LET price == bar.close
        dynamic_dca_amount == CalculateDynamicDcaAmount(p, bar)
        shares == CalculateShares(p, dynamic_dca_amount, price)
    IN  IF Weekday(date) = 0 /\ RGe(s.dca_cash, dynamic_dca_amount)
           /\ RGt(shares, Zero)
        THEN BuyDca(p, s, shares, price, date)
        ELSE s

ShouldSellV2(p, s0, s1, bar) ==
    LET profit_ratio == ProfitRatio(s0.dca_position, bar.close)
    IN  /\ RGt(s1.dca_position.shares, Zero)
        /\ RGt(PositionRatio(s1, bar.close), R(65, 100))
        /\ RGt(profit_ratio, CalculateDynamicProfitTarget(p, bar))
        /\ \/ /\ RGt(bar.macd_hist, Zero)
              /\ RGt(bar.volume_ratio, R(15, 10))
              /\ RLt(bar.macd_hist, bar.macd_hist_prev)
           \/ (bar.is_downtrend /\ RGt(profit_ratio, R(15, 100)))
           \/ (RLt(bar.macd_hist, Zero) /\ RGt(profit_ratio, R(25, 100)))

ExecuteDcaLogicV2(p, s, bar, date) ==
    LET s1 == WeeklyBuyV2(p, s, bar, date)
    IN  IF ShouldSellV2(p, s, s1, bar)
        THEN PartialSell(p, s1, bar.close, date)
        ELSE s1

StopLossV2(s, bar) ==
    /\ RGt(s.t_position.shares, Zero)
    /\ RGt(bar.atr, Zero)
    /\ RLt(bar.close,
           RSub(s.t_position.avg_price,
                RMul(CalculateDynamicStopLossMultiplier(bar), bar.atr)))

MomentumExitV2(s, bar) ==
    /\ RGt(s.t_position.shares, Zero)
    /\ RGt(bar.ma5, Zero)
    /\ RGt(bar.macd_hist, Zero)
    /\ RLt(bar.macd_hist, bar.macd_hist_prev)
    /\ RLt(bar.close, bar.ma5)
    /\ \/ RGt(ProfitRatio(s.t_position, bar.close), R(1, 100))
       \/ bar.is_volume_surge

TEntryGateV2(p, s, bar) ==
    /\ s.t_position.shares = Zero
    /\ RGe(s.t_cash, CalculateDynamicTAmount(p, bar))

TEntrySignalV2(bar) ==
    \/ (Truthy(bar.index_data.drop_2_rebound_03) /\ bar.is_uptrend)
    \/ Truthy(bar.index_data.drop_1_rebound_02)
    \/ /\ RLt(bar.macd_hist, Zero)
       /\ RGt(bar.macd_hist_prev, bar.macd_hist_prev2)
       /\ bar.is_yang

ExecuteTLogicV2(p, s, bar, date) ==
    LET price == bar.close
        shares == CalculateShares(p, CalculateDynamicTAmount(p, bar), price)
    IN  IF StopLossV2(s, bar)
        THEN SellT(p, s, s.t_position.shares, price, date)
        ELSE IF MomentumExitV2(s, bar)
        THEN SellT(p, s, s.t_position.shares, price, date)
        ELSE IF TEntryGateV2(p, s, bar) /\ TEntrySignalV2(bar)
                /\ RGt(shares, Zero)
        THEN BuyT(p, s, shares, price, date)
        ELSE s

\* BaseStrategy._record_daily_nav: the row it appends
BaseNavRow(p, s, bar, date) ==
    LET price == bar.close
        dca_value == RMul(s.dca_position.shares, price)
        t_value == RMul(s.t_position.shares, price)
        total_value == RAdd(RAdd(s.dca_cash, s.t_cash), RAdd(dca_value, t_value))
        initial_value == p.total_capital
    IN  [date |-> date, price |-> price,
         dca_cash |-> s.dca_cash, t_cash |-> s.t_cash,
         dca_value |-> dca_value, t_value |-> t_value,
         total_value |-> total_value,
         total_return |-> IF RGt(initial_value, Zero)
                          THEN RDiv(RSub(total_value, initial_value), initial_value)
                          ELSE Zero]

BaseRecordDailyNav(p, s, bar, date) ==
    [s EXCEPT !.daily_nav = Append(@, BaseNavRow(p, s, bar, date))]

\* appends its own row, then calls super()._record_daily_nav
RecordDailyNavV2(p, s, bar, date) ==
    BaseRecordDailyNav(p,
        [s EXCEPT !.daily_nav = Append(@, NavRowV1(p, s, bar, date))],
        bar, date)

OnBarResultV2(p, s, bar, date) ==
    RecordDailyNavV2(p,
        ExecuteTLogicV2(p, ExecuteDcaLogicV2(p, s, bar, date), bar, date),
        bar, date)

-----------------------------------------------------------------------------
(* DCA-only: DcaOnlyStrategy (ledger operations inherited from             *)
(* BaseStrategy)                                                           *)

DcaOnlyCalculateShares(p, amount, price) ==
    LET commission == CalculateCommission(p, amount)
        total_cost == RAdd(amount, commission)
        shares == Trunc(RDiv(total_cost, RMul(price, RAdd(One, p.slippage))))
    IN  R(IF shares > 0 THEN shares ELSE 0, 1)

\* BaseStrategy._execute_sell (the second definition, which is the one bound)
BaseExecuteSell(p, s, cash, shares, price, date, strategy) ==
    LET position == s.dca_position
        amount == RMul(shares, price)
        cost_amount == RMul(position.avg_price, shares)
        commission == CalculateCommission(p, amount)
        net_amount == RSub(amount, commission)
        profit == RSub(net_amount, cost_amount)
        new_shares == RSub(position.shares, shares)
        cash_after == RAdd(cash, net_amount)
        trade == [date |-> date, type |-> "sell", strategy |-> strategy,
                  shares |-> shares, price |-> price, amount |-> net_amount,
                  profit |-> profit, cash_after |-> cash_after]
    IN  [s EXCEPT !.dca_position =
                      [shares |-> new_shares,
                       cost |-> RSub(position.cost, cost_amount),
                       avg_price |-> IF new_shares = Zero THEN Zero
                                     ELSE position.avg_price],
                  !.dca_cash = cash_after,
                  !.dca_trades = Append(@, trade),
                  !.trades = Append(@, trade)]

DcaOnlyExecuteDcaLogic(p, s, bar, date) ==
    LET price == bar.close
        profit_ratio == ProfitRatio(s.dca_position, price)
        shares == DcaOnlyCalculateShares(p, p.dca_amount_per_week, price)
        s1 == IF Weekday(date) = 0 /\ RGe(s.dca_cash, p.dca_amount_per_week)
                 /\ RGt(shares, Zero)
              THEN BuyDca(p, s, shares, price, date)
              ELSE s
        should_sell == /\ RGt(s1.dca_position.shares, Zero)
                       /\ RGe(profit_ratio, p.profit_target)
                       /\ RLt(price, bar.ma10)
    IN  IF should_sell
        THEN BaseExecuteSell(p, s1, s1.dca_cash, s1.dca_position.shares,
                             price, date, "dca")
        ELSE s1

DcaOnlyOnBarResult(p, s, bar, date) ==
    BaseRecordDailyNav(p, DcaOnlyExecuteDcaLogic(p, s, bar, date), bar, date)

-----------------------------------------------------------------------------
(* The run: construction, then one on_bar call per bar in date order.      *)

\* a strategy driven bar by bar, with no engine around it
NoEngine ==
    /\ provider = [data |-> <<>>, index |-> {}]
    /\ engine = [index_data_cache |-> <<>>, index_data_date_range |-> <<>>]
    /\ index_fetches = <<>>
    /\ calls = <<>>
    /\ driver = "on_bar"
    /\ pending = {}
    /\ results = <<>>
    /\ failed_symbols = <<>>
    /\ saved = <<>>

Init ==
    \E run \in Runs :
        /\ params = run.params
        /\ feed = run.feed
        /\ dca_cash = IF run.params.variant = "dca_only"
                      THEN run.params.total_capital
                      ELSE RMul(run.params.total_capital, run.params.dca_ratio)
        /\ t_cash = IF run.params.variant = "dca_only"
                    THEN Zero
                    ELSE RMul(run.params.total_capital,
                              RSub(One, run.params.dca_ratio))
        /\ dca_position = FlatDca
        /\ t_position = FlatT
        /\ sell_count = 0
        /\ trades = <<>>
        /\ dca_trades = <<>>
        /\ t_trades = <<>>
        /\ daily_nav = <<>>
        /\ today = 0
        /\ bars_fed = 0
        /\ last_bar = Seen(NoBar)
        /\ NoEngine

Apply(s, bar, date) ==
    /\ dca_cash' = s.dca_cash
    /\ t_cash' = s.t_cash
    /\ dca_position' = s.dca_position
    /\ t_position' = s.t_position
    /\ sell_count' = s.sell_count
    /\ trades' = s.trades
    /\ dca_trades' = s.dca_trades
    /\ t_trades' = s.t_trades
    /\ daily_nav' = s.daily_nav
    /\ today' = date
    /\ bars_fed' = bars_fed + 1
    /\ last_bar' = Seen(bar)
    /\ UNCHANGED <<params, feed>>
    /\ UNCHANGED evars

OnBarV1 ==
    /\ params.variant = "v1"
    /\ bars_fed < MaxBars(feed)
    /\ \E bar \in Bars("v1", feed), gap \in DateGaps :
          Apply(OnBarResultV1(params, Self, bar, today + gap), bar, today + gap)

OnBarV2 ==
    /\ params.variant = "v2"
    /\ bars_fed < MaxBars(feed)
    /\ \E bar \in Bars("v2", feed), gap \in DateGaps :
          Apply(OnBarResultV2(params, Self, bar, today + gap), bar, today + gap)

OnBarDcaOnly ==
    /\ params.variant = "dca_only"
    /\ bars_fed < MaxBars(feed)
    /\ \E bar \in Bars("dca_only", feed), gap \in DateGaps :
          Apply(DcaOnlyOnBarResult(params, Self, bar, today + gap), bar, today + gap)

Next == OnBarV1 \/ OnBarV2 \/ OnBarDcaOnly

Spec == Init /\ [][Next]_vars

-----------------------------------------------------------------------------
(* The backtest engine (BacktestEngine) and the batch drivers.             *)
(*                                                                         *)
(* The data provider is the environment: what it has stored for each       *)
(* symbol and for the benchmark '000001.SH' is chosen at the start and     *)
(* does not change.  A stored series is the set of its dates (every row    *)
(* is a quiet bar closing at 1); get_data slices it to the requested range *)
(* and returns it in index order.  A series stored without its price       *)
(* columns makes the indicator computation raise.                          *)

Symbols == {"A", "B", "C"}

\* the symbols in the order a driver submits them
Tasks == <<"A", "B", "C">>

Ranges == {<<0, 8>>, <<7, 14>>}

\* the one (start_date, end_date) a sweep passes for every symbol
SweepRange == <<0, 14>>

Rows(dates) == [dates |-> dates, well_formed |-> TRUE]
Malformed(dates) == [dates |-> dates, well_formed |-> FALSE]

StoredData ==
    { [A |-> Rows({0, 1, 7}), B |-> Rows({7, 8, 14}), C |-> Rows({0, 1, 7, 8})],
      [A |-> Rows({0, 1, 7}), B |-> Rows({}), C |-> Rows({7, 8, 14})],
      [A |-> Rows({0, 1, 7}), B |-> Malformed({0, 1, 7}), C |-> Rows({7, 8, 14})],
      [A |-> Rows({}), B |-> Malformed({7, 8}), C |-> Rows({0, 1, 7})] }

StoredIndex == { {0, 1, 7, 8, 14}, {0, 7, 14}, {} }

Drivers ==
    { "run_backtest", "run_multiple_backtests",
      "run_all_etf_backtests", "run_v2_etf_backtest", "run_single_backtest" }

\* None, for the cached benchmark frame and for its date range
NoIndex == <<>>
NoRange == <<>>

\* the empty dict {}
EmptyDict == <<>>

\* BacktestEngine.__init__
NewEngine == [index_data_cache |-> NoIndex, index_data_date_range |-> NoRange]

\* the state DcaTradingStrategy.__init__ / DcaTradingStrategyV2.__init__ leave
Constructed(p) ==
    [dca_cash |-> RMul(p.total_capital, p.dca_ratio),
     t_cash |-> RMul(p.total_capital, RSub(One, p.dca_ratio)),
     dca_position |-> FlatDca, t_position |-> FlatT,
     sell_count |-> 0,
     trades |-> <<>>, dca_trades |-> <<>>, t_trades |-> <<>>,
     daily_nav |-> <<>>]

\* sort_index: the dates in ascending order
RECURSIVE SortIndex(_)
SortIndex(dates) ==
    IF dates = {} THEN <<>>
    ELSE LET first == CHOOSE d \in dates : \A e \in dates : d <= e
         IN  <<first>> \o SortIndex(dates \ {first})

\* AShareDataFetcher.get_data: the stored rows of [start_date, end_date];
\* None and an empty frame are both the empty sequence
GetData(dates, range) ==
    SortIndex({d \in dates : range[1] <= d /\ d <= range[2]})

\* calculate_index_indicators: the regime the benchmark is in on a date
IndexRegime(date) ==
    IF date = 7 THEN "drop_2_rebound_03" ELSE "none"

Index(df) == {df[i] : i \in 1..Len(df)}

\* the bar_data run_backtest builds for a row: the regime columns are joined
\* from the benchmark frame (how='left') when there is one, and set to False
\* when there is none
BarData(date, index_df) ==
    LET regime == IF index_df = NoIndex THEN "none"
                  ELSE IF date \in Index(index_df) THEN IndexRegime(date)
                  ELSE "join_miss"
    IN  Bar(One, MacdFlat, One, FALSE, Zero, Zero, Zero, "none", regime)

\* fault seeded for BarOrdering: the rows are walked from the last to the first
RECURSIVE RunBarsDescending(_, _, _, _, _)
RunBarsDescending(p, run, df, index_df, i) ==
    IF i > Len(df) THEN run
    ELSE LET date == df[Len(df) + 1 - i]
         IN  CHOOSE done \in
                 { RunBarsDescending(p, after, df, index_df, i + 1) :
                     after \in {[strategy |-> OnBarResultV1(p, run.strategy,
                                                 BarData(date, index_df), date),
                                 on_bar |-> Append(run.on_bar, date)]} } : TRUE

\* the bar loop of run_backtest from row i on; on_bar logs the dates handed
\* to self.strategy.on_bar, in call order.  (Here and below a value that is
\* used more than once is bound by ranging over its singleton, so that it is
\* computed once.)
RECURSIVE RunBars(_, _, _, _, _)
RunBars(p, run, df, index_df, i) ==
    IF i > Len(df) THEN run
    ELSE LET date == df[i]
         IN  CHOOSE done \in
                 { RunBars(p, after, df, index_df, i + 1) :
                     after \in {[strategy |-> OnBarResultV1(p, run.strategy,
                                                 BarData(date, index_df), date),
                                 on_bar |-> Append(run.on_bar, date)]} } : TRUE

\* DcaTradingStrategy.get_results, without annual_return, max_drawdown,
\* sharpe_ratio, t_profit and annual_returns (powers, roots and running
\* extremes of the NAV series, which no property here reads)
GetResults(s) ==
    IF s.daily_nav = <<>> THEN EmptyDict
    ELSE LET final_nav == s.daily_nav[Len(s.daily_nav)]
             initial_nav == s.daily_nav[1]
             Count(log, type) ==
                 Cardinality({i \in 1..Len(log) : log[i].type = type})
         IN  [total_return |-> final_nav.total_return,
              final_value |-> final_nav.total_value,
              dca_buy_count |-> Count(s.dca_trades, "buy"),
              dca_sell_count |-> Count(s.dca_trades, "sell"),
              t_buy_count |-> Count(s.t_trades, "buy"),
              t_sell_count |-> Count(s.t_trades, "sell"),
              dca_cash |-> final_nav.dca_cash,
              t_cash |-> final_nav.t_cash,
              dca_value |-> final_nav.dca_value,
              t_value |-> final_nav.t_value,
              data_start_date |-> initial_nav.date,
              data_end_date |-> final_nav.date]

RunBacktestKeepsLedger(e, p, s, prov, symbol, range) ==
    LET df == GetData(prov.data[symbol].dates, range)
        refetch == \/ e.index_data_cache = NoIndex
                   \/ e.index_data_date_range # range
        fetched == GetData(prov.index, range)
        index_df == IF refetch THEN fetched ELSE e.index_data_cache
        e1 == IF ~refetch THEN e
              ELSE IF fetched # <<>>
                   THEN [index_data_cache |-> fetched,
                         index_data_date_range |-> range]
                   ELSE NewEngine
        fetches == IF refetch THEN <<range>> ELSE <<>>
        Call(outcome, evaluated_by, on_bar, result) ==
            [symbol |-> symbol, range |-> range, constructed |-> p.variant,
             outcome |-> outcome, evaluated_by |-> evaluated_by,
             on_bar |-> on_bar, result |-> result]
    IN  IF df = <<>>
        THEN [engine |-> e, strategy |-> s, fetches |-> <<>>,
              call |-> Call("empty", "none", <<>>, EmptyDict)]
        ELSE IF ~prov.data[symbol].well_formed
        THEN [engine |-> e1, strategy |-> s, fetches |-> fetches,
              call |-> Call("KeyError", "none", <<>>, EmptyDict)]
        ELSE IF p.variant # "v1"
        THEN [engine |-> e1, strategy |-> s, fetches |-> fetches,
              call |-> Call("TypeError", "none", <<>>, EmptyDict)]
        ELSE CHOOSE out \in
                 { [engine |-> e1, strategy |-> run.strategy, fetches |-> fetches,
                    call |-> Call("result", "v1", run.on_bar,
                                  GetResults(run.strategy)
                                      @@ [symbol |-> symbol, symbol_type |-> "etf",
                                          start_date |-> range[1],
                                          end_date |-> range[2],
                                          data_points |-> Len(df)])] :
                     run \in {RunBars(p, [strategy |-> s, on_bar |-> <<>>],
                                      df, index_df, 1)} } : TRUE

\* BacktestEngine.run_backtest on engine e, whose self.strategy was built
\* with params p and is in state s.  It yields the engine and the strategy
\* it leaves, the benchmark fetches it made and the record of the call:
\* outcome "empty" is the early return of {}, "KeyError" and "TypeError" are
\* the exceptions that leave it, "result" is the normal return.
RunBacktest(e, p, s, prov, symbol, range) ==
    LET df == GetData(prov.data[symbol].dates, range)
        current_date_range == range
        refetch == \/ e.index_data_cache = NoIndex
                   \/ e.index_data_date_range # current_date_range
        fetched == GetData(prov.index, range)
        index_df == IF refetch THEN fetched ELSE e.index_data_cache
        e1 == IF ~refetch THEN e
              ELSE IF fetched # <<>>
                   THEN [index_data_cache |-> fetched,
                         index_data_date_range |-> current_date_range]
                   ELSE [index_data_cache |-> NoIndex,
                         index_data_date_range |-> NoRange]
        fetches == IF refetch THEN <<range>> ELSE <<>>
        Results(strategy) ==
            GetResults(strategy)
                @@ [symbol |-> symbol, symbol_type |-> "etf",
                    start_date |-> range[1], end_date |-> range[2],
                    data_points |-> Len(df)]
        Call(outcome, evaluated_by, on_bar, result) ==
            [symbol |-> symbol, range |-> range, constructed |-> p.variant,
             outcome |-> outcome, evaluated_by |-> evaluated_by,
             on_bar |-> on_bar, result |-> result]
    IN  IF df = <<>>
        THEN [engine |-> e, strategy |-> s, fetches |-> <<>>,
              call |-> Call("empty", "none", <<>>, EmptyDict)]
        ELSE IF ~prov.data[symbol].well_formed
        THEN [engine |-> e1, strategy |-> s, fetches |-> fetches,
              call |-> Call("KeyError", "none", <<>>, EmptyDict)]
        ELSE IF p.variant # "v1"
        THEN [engine |-> e1, strategy |-> s, fetches |-> fetches,
              call |-> Call("TypeError", "none", <<>>, EmptyDict)]
        ELSE CHOOSE out \in
                 { [engine |-> e1, strategy |-> run.strategy, fetches |-> fetches,
                    call |-> Call("result", "v1", run.on_bar,
                                  Results(run.strategy))] :
                     run \in {RunBars(p, [strategy |-> Constructed(p),
                                          on_bar |-> <<>>],
                                      df, index_df, 1)} } : TRUE

Raised(out) == out.call.outcome \in {"KeyError", "TypeError"}

\* a dict is truthy unless it is empty
NonEmpty(dict) == DOMAIN dict # {}

BacktestSingleEtfOnSharedEngine(prov, symbol, range, strategy_params) ==
    CHOOSE task \in
        { [out |-> out,
           backtest_result |->
               IF Raised(out)
               THEN [success |-> FALSE, symbol |-> symbol,
                     error |-> out.call.outcome]
               ELSE [success |-> TRUE, symbol |-> symbol,
                     result |-> out.call.result]] :
            out \in {RunBacktestKeepsLedger(engine, strategy_params, Self, prov,
                                            symbol, range)} } : TRUE

\* backtest_single_etf of run_all_etf_backtests.py: one task of the pool
BacktestSingleEtf(prov, symbol, range, strategy_params) ==
    CHOOSE task \in
        { [out |-> out,
           backtest_result |->
               IF Raised(out)
               THEN [success |-> FALSE, symbol |-> symbol,
                     error |-> out.call.outcome]
               ELSE [success |-> TRUE, symbol |-> symbol,
                     result |-> out.call.result]] :
            out \in {RunBacktest(NewEngine, strategy_params,
                            Constructed(strategy_params), prov, symbol, range)} } : TRUE

\* backtest_single_symbol of run_v2_etf_backtest.py: one task of the pool
BacktestSingleSymbol(prov, symbol, range, strategy_params) ==
    CHOOSE task \in
        { [out |-> out,
           backtest_result |->
               IF Raised(out)
               THEN [success |-> FALSE, symbol |-> symbol,
                     error |-> out.call.outcome]
               ELSE IF NonEmpty(out.call.result)
               THEN [success |-> TRUE, symbol |-> symbol,
                     result |-> out.call.result]
               ELSE [success |-> FALSE, symbol |-> symbol,
                     error |-> "empty result"]] :
            out \in {RunBacktest(NewEngine, strategy_params,
                            Constructed(strategy_params), prov, symbol, range)} } : TRUE

\* calculate_performance_metrics of run_v2_etf_backtest.py
CalculatePerformanceMetrics(result) ==
    [symbol |-> result.symbol,
     symbol_type |-> result.symbol_type,
     total_return |-> result.total_return,
     final_value |-> result.final_value,
     dca_buy_count |-> result.dca_buy_count,
     dca_sell_count |-> result.dca_sell_count,
     t_buy_count |-> result.t_buy_count,
     t_sell_count |-> result.t_sell_count,
     data_points |-> result.data_points,
     start_date |-> result.data_start_date,
     end_date |-> result.data_end_date]

EngineInit ==
    \E d \in Drivers, p \in {V1Params, V2Params},
       data \in StoredData, index \in StoredIndex :
        /\ d = "run_all_etf_backtests" => p = V1Params
        /\ d = "run_v2_etf_backtest" => p = V2Params
        /\ driver = d
        /\ params = p
        /\ feed = "engine"
        /\ provider = [data |-> data, index |-> index]
        /\ engine = NewEngine
        /\ index_fetches = <<>>
        /\ calls = <<>>
        /\ pending = IF d = "run_backtest" THEN {} ELSE Symbols
        /\ results = <<>>
        /\ failed_symbols = <<>>
        /\ saved = <<>>
        /\ dca_cash = Constructed(p).dca_cash
        /\ t_cash = Constructed(p).t_cash
        /\ dca_position = FlatDca
        /\ t_position = FlatT
        /\ sell_count = 0
        /\ trades = <<>>
        /\ dca_trades = <<>>
        /\ t_trades = <<>>
        /\ daily_nav = <<>>
        /\ today = 0
        /\ bars_fed = 0
        /\ last_bar = Seen(NoBar)

\* what a run_backtest call leaves behind; fresh: the strategy and the engine
\* were built for this call alone
Commit(out, fresh) ==
    /\ engine' = out.engine
    /\ index_fetches' = index_fetches \o out.fetches
    /\ calls' = Append(calls, out.call)
    /\ dca_cash' = out.strategy.dca_cash
    /\ t_cash' = out.strategy.t_cash
    /\ dca_position' = out.strategy.dca_position
    /\ t_position' = out.strategy.t_position
    /\ sell_count' = out.strategy.sell_count
    /\ trades' = out.strategy.trades
    /\ dca_trades' = out.strategy.dca_trades
    /\ t_trades' = out.strategy.t_trades
    /\ daily_nav' = out.strategy.daily_nav
    /\ IF out.call.outcome = "result"
       THEN /\ today' = out.call.on_bar[Len(out.call.on_bar)]
            /\ bars_fed' = Len(out.call.on_bar)
            /\ last_bar' = Seen(BarData(today', NoIndex))
       ELSE IF fresh
       THEN /\ today' = 0
            /\ bars_fed' = 0
            /\ last_bar' = Seen(NoBar)
       ELSE UNCHANGED <<today, bars_fed, last_bar>>
    /\ UNCHANGED <<params, feed, provider, driver>>

\* one call of engine.run_backtest(symbol, 'etf', start_date, end_date) on
\* the engine at hand
RunBacktestCall ==
    /\ driver = "run_backtest"
    /\ Len(calls) < MaxCalls
    /\ \E symbol \in Symbols, range \in Ranges :
          \E out \in {RunBacktest(engine, params, Self, provider, symbol, range)} :
              Commit(out, FALSE)
    /\ UNCHANGED <<pending, results, failed_symbols, saved>>

\* one pass of the loop of BacktestEngine.run_multiple_backtests
RunMultipleBacktestsStep ==
    /\ driver = "run_multiple_backtests"
    /\ pending # {}
    /\ LET k == CHOOSE i \in 1..Len(Tasks) :
                   /\ Tasks[i] \in pending
                   /\ \A j \in 1..(i - 1) : Tasks[j] \notin pending
           symbol == Tasks[k]
       IN  \E out \in {RunBacktest(engine, params, Self, provider, symbol,
                                   SweepRange)} :
               /\ Commit(out, FALSE)
               /\ results' = IF ~Raised(out) /\ NonEmpty(out.call.result)
                             THEN Append(results, out.call.result)
                             ELSE results
               /\ pending' = pending \ {symbol}
    /\ UNCHANGED <<failed_symbols, saved>>

\* one task of the pool of run_all_etf_backtests and the pass of the
\* collecting loop that takes its backtest_result (imap_unordered: any order);
\* the symbol it appends to failed_symbols is kept as a record of one field
RunAllEtfTask ==
    /\ driver = "run_all_etf_backtests"
    /\ \E symbol \in pending :
          \E task \in {BacktestSingleEtf(provider, symbol, SweepRange, params)} :
          LET backtest_result == task.backtest_result
          IN  /\ Commit(task.out, TRUE)
              /\ results' = IF backtest_result.success
                            THEN Append(results, backtest_result.result)
                            ELSE results
              /\ failed_symbols' =
                     IF backtest_result.success THEN failed_symbols
                     ELSE Append(failed_symbols,
                                 [symbol |-> backtest_result.symbol])
              /\ pending' = pending \ {symbol}
    /\ UNCHANGED saved

\* one task of the pool of run_v2_etf_backtest and the pass of the collecting
\* loop that takes its backtest_result
RunV2EtfTask ==
    /\ driver = "run_v2_etf_backtest"
    /\ \E symbol \in pending :
          \E task \in {BacktestSingleSymbol(provider, symbol, SweepRange, params)} :
          LET backtest_result == task.backtest_result
          IN  /\ Commit(task.out, TRUE)
              /\ results' = IF backtest_result.success
                            THEN Append(results,
                                     CalculatePerformanceMetrics(
                                         backtest_result.result))
                            ELSE results
              /\ failed_symbols' =
                     IF backtest_result.success THEN failed_symbols
                     ELSE Append(failed_symbols, backtest_result)
              /\ pending' = pending \ {symbol}
    /\ UNCHANGED saved

\* DcaTradingStrategy.save_results on strategy s into the directory of the
\* symbol: the three trade logs and the NAV series it writes
SaveResults(symbol, s) ==
    [symbol |-> symbol, trades |-> s.trades, dca_trades |-> s.dca_trades,
     t_trades |-> s.t_trades, daily_nav |-> s.daily_nav]

\* run_single_backtest of run_v2_quick_backtest.py, and the same steps of
\* run_backtest of web/app.py: build a strategy from strategy_params, build an
\* engine on it, run the symbol, save the strategy built.  run_backtest feeds
\* the bars to the strategy it builds itself, so the one built here is still
\* as constructed when it is saved.
RunSingleBacktest(prov, symbol, range, strategy_params) ==
    CHOOSE task \in
        { [out |-> out,
           saved |-> IF Raised(out) THEN <<>>
                     ELSE <<SaveResults(symbol, Constructed(strategy_params))>>,
           result |->
               IF Raised(out)
               THEN [symbol |-> symbol, success |-> FALSE,
                     error |-> out.call.outcome]
               ELSE IF "total_return" \notin DOMAIN out.call.result
               THEN [symbol |-> symbol, success |-> FALSE, error |-> "KeyError"]
               ELSE [symbol |-> symbol, success |-> TRUE,
                     total_return |-> out.call.result.total_return,
                     final_value |-> out.call.result.final_value]] :
            out \in {RunBacktest(NewEngine, strategy_params,
                            Constructed(strategy_params), prov, symbol, range)} } : TRUE

\* one task of the thread pool of run_v2_quick_backtest and the pass of the
\* collecting loop that takes its result (as_completed: any order)
RunSingleBacktestTask ==
    /\ driver = "run_single_backtest"
    /\ \E symbol \in pending :
          \E task \in {RunSingleBacktest(provider, symbol, SweepRange, params)} :
              /\ Commit(task.out, TRUE)
              /\ saved' = saved \o task.saved
              /\ results' = Append(results, task.result)
              /\ failed_symbols' =
                     IF task.result.success THEN failed_symbols
                     ELSE Append(failed_symbols, [symbol |-> symbol])
              /\ pending' = pending \ {symbol}

EngineNext ==
    \/ RunBacktestCall
    \/ RunMultipleBacktestsStep
    \/ RunAllEtfTask
    \/ RunV2EtfTask
    \/ RunSingleBacktestTask

EngineSpec == EngineInit /\ [][EngineNext]_vars

-----------------------------------------------------------------------------
(* Properties of the strategies.                                           *)

IsTwoLeg == params.variant \in {"v1", "v2"}

Last(log) == log[Len(log)]

\* the trades a step appends to a log
Added(old, new) == SubSeq(new, Len(old) + 1, Len(new))

Sells(log) == {i \in 1..Len(log) : log[i].type = "sell"}

RECURSIVE Held(_, _)
\* the shares a log's first n trades leave in the position
Held(log, n) ==
    IF n = 0 THEN Zero
    ELSE IF log[n].type = "buy"
    THEN RAdd(Held(log, n - 1), log[n].shares)
    ELSE RSub(Held(log, n - 1), log[n].shares)

\* the exit condition of the accumulation leg for a bar fed next
ExitCondition(bar, date) ==
    IF params.variant = "v1"
    THEN ShouldSellV1(Self, WeeklyBuyV1(params, Self, bar, date), bar)
    ELSE ShouldSellV2(params, Self, WeeklyBuyV2(params, Self, bar, date), bar)

SellCapInv ==
    IsTwoLeg => /\ Cardinality(Sells(dca_trades)) <= 3
                /\ sell_count = Cardinality(Sells(dca_trades))

\* C1: in v1 and v2 the accumulation leg never records more than three
\* sells, the liquidation counter equals the number of accumulation sells
\* executed, and the counter never decreases from one bar to the next.
C1_SellCap == []SellCapInv /\ [][sell_count' >= sell_count]_vars

\* three sells made, and a bar on which the exit condition holds again is
\* about to be fed
C1_Witness ==
    /\ IsTwoLeg
    /\ sell_count = 3
    /\ Cardinality(Sells(dca_trades)) = 3
    /\ bars_fed < MaxBars(feed)
    /\ \E bar \in Bars(params.variant, feed), gap \in DateGaps :
          ExitCondition(bar, today + gap)

\* C2: in v1 and v2 every tactical buy is made while the tactical position
\* holds no shares, so an open tactical position is never added to; the
\* shares the tactical log leaves are the shares of the position.
C2_TacticalExclusion ==
    IsTwoLeg =>
        /\ \A i \in 1..Len(t_trades) :
              t_trades[i].type = "buy" => Held(t_trades, i - 1) = Zero
        /\ Held(t_trades, Len(t_trades)) = t_position.shares

\* the tactical position is open and a bar is about to be fed on which the
\* entry signal fires, no exit fires and both funding tests pass
C2_Witness ==
    /\ params.variant = "v1"
    /\ RGt(t_position.shares, Zero)
    /\ bars_fed < MaxBars(feed)
    /\ \E bar \in Bars("v1", feed), gap \in DateGaps :
          LET s1 == ExecuteDcaLogicV1(params, Self, bar, today + gap)
          IN  /\ TEntrySignalV1(bar)
              /\ ~StopLossV1(s1, bar)
              /\ ~MomentumExitV1(s1, bar)
              /\ RGe(s1.t_cash, params.t_amount_per_trade)
              /\ RGe(RMul(s1.dca_position.shares, bar.close),
                     params.t_amount_per_trade)

TFlat == t_position = FlatT

TOpen ==
    /\ RGt(t_position.shares, Zero)
    /\ t_position.entry_date # NoDate

\* how the tactical position may change over one bar
TMove ==
    LET added == Added(t_trades, t_trades')
    IN  \/ /\ t_position' = t_position
           /\ added = <<>>
        \/ /\ TFlat /\ TOpen'
           /\ Len(added) = 1
           /\ added[1].type = "buy"
           /\ added[1].shares = t_position'.shares
           /\ t_position'.entry_date = today'
        \/ /\ TOpen /\ TFlat'
           /\ Len(added) = 1
           /\ added[1].type = "sell"
           /\ added[1].shares = t_position.shares

\* C3: after every bar the tactical position is either flat (no shares, no
\* entry date) or open (shares and an entry date); it goes from flat to
\* open only by a tactical buy and from open to flat only by a sale of the
\* whole position.
C3_TacticalTwoState ==
    /\ [](IsTwoLeg => TFlat \/ TOpen)
    /\ [][IsTwoLeg => TMove]_vars

\* opened, closed and opened again
C3_Witness ==
    /\ IsTwoLeg
    /\ Len(t_trades) = 3
    /\ t_trades[1].type = "buy"
    /\ t_trades[2].type = "sell"
    /\ t_trades[3].type = "buy"
    /\ TOpen

\* the stop-loss multiplier of the running variant for a bar
StopMultiplier(bar) ==
    IF params.variant = "v1" THEN R(2, 1)
    ELSE CalculateDynamicStopLossMultiplier(bar)

\* C4: on a bar where the tactical position is open, ATR > 0 and the close
\* is below avg_price - k * ATR (k = 2 in v1, the dynamic multiplier in v2)
\* the whole tactical position is sold at the close: exactly one tactical
\* trade is recorded on the bar, a sell of all the shares, and the position
\* is flat afterwards, so no other exit and no entry acted on the bar.
C4_StopLossPriority ==
    [][(/\ IsTwoLeg
        /\ RGt(t_position.shares, Zero)
        /\ RGt(last_bar'.atr, Zero)
        /\ RLt(last_bar'.close,
               RSub(t_position.avg_price,
                    RMul(StopMultiplier(last_bar'), last_bar'.atr))))
       => /\ t_position'.shares = Zero
          /\ Len(t_trades') = Len(t_trades) + 1
          /\ Last(t_trades').type = "sell"
          /\ Last(t_trades').shares = t_position.shares
          /\ Last(t_trades').price = last_bar'.close]_vars

\* the bar just handled closed a tactical position whose average price was
\* more than k * ATR above the close
C4_Witness ==
    /\ IsTwoLeg
    /\ t_trades # <<>>
    /\ Last(t_trades).type = "sell"
    /\ Last(t_trades).date = today
    /\ RGt(last_bar.atr, Zero)
    /\ LET sold == Last(t_trades)
           avg_price == RDiv(RSub(sold.amount, sold.profit), sold.shares)
       IN  RLt(last_bar.close,
               RSub(avg_price, RMul(StopMultiplier(last_bar), last_bar.atr)))

\* the amount the tactical leg intends to trade on a bar
IntendedTAmount(bar) ==
    IF params.variant = "v1" THEN params.t_amount_per_trade
    ELSE CalculateDynamicTAmount(params, bar)

\* the strategy after on_bar(bar, date), whichever variant runs
OnBarResult(bar, date) ==
    CASE params.variant = "v1" -> OnBarResultV1(params, Self, bar, date)
      [] params.variant = "v2" -> OnBarResultV2(params, Self, bar, date)
      [] OTHER -> DcaOnlyOnBarResult(params, Self, bar, date)

\* C5: in v1 and v2 a bar on which a tactical buy is made leaves an
\* accumulation position worth, at the bar's close, at least the amount
\* the tactical leg intends to trade on that bar.
C5_LiquidityGate ==
    (IsTwoLeg /\ bars_fed < MaxBars(feed)) =>
        \A bar \in Bars(params.variant, feed), gap \in DateGaps :
            LET after == OnBarResult(bar, today + gap)
            IN  (/\ Len(after.t_trades) > Len(t_trades)
                 /\ Last(after.t_trades).type = "buy")
                => RGe(RMul(after.dca_position.shares, bar.close),
                       IntendedTAmount(bar))

\* a NAV row adds up, and its return is measured against the capital
NavRowReconciles(row) ==
    /\ row.total_value = RAdd(RAdd(row.dca_cash, row.t_cash),
                              RAdd(row.dca_value, row.t_value))
    /\ row.total_return = RDiv(RSub(row.total_value, params.total_capital),
                               params.total_capital)

\* a NAV row carries the ledger as it stands, valued at the last close
NavRowOfLedger(row) ==
    /\ row.dca_cash = dca_cash
    /\ row.t_cash = t_cash
    /\ row.dca_value = RMul(dca_position.shares, last_bar.close)
    /\ row.t_value = RMul(t_position.shares, last_bar.close)

\* C6: every NAV row has total_value = dca_cash + t_cash + DCA shares x
\* close + T shares x close, with the cash and the shares the ledger holds
\* after the trades of the row's bar, and total_return = (total_value -
\* total_capital) / total_capital.
C6_NavReconciliation ==
    \A i \in 1..Len(daily_nav) :
        /\ NavRowReconciles(daily_nav[i])
        /\ daily_nav[i].date = today => NavRowOfLedger(daily_nav[i])

\* a row recorded on a bar that traded, with both legs holding shares
C6_Witness ==
    /\ daily_nav # <<>>
    /\ Last(daily_nav).date = today
    /\ RGt(Last(daily_nav).dca_value, Zero)
    /\ RGt(Last(daily_nav).t_value, Zero)
    /\ t_trades # <<>>
    /\ Last(t_trades).date = today

\* C7: every bar appends exactly one NAV row, so the rows number the bars
\* handled and their dates strictly increase; in v1, v2 and DCA-only.
C7_OneNavRowPerBar ==
    /\ Len(daily_nav) = bars_fed
    /\ \A i \in 1..Len(daily_nav) : \A j \in 1..Len(daily_nav) :
          i < j => daily_nav[i].date < daily_nav[j].date

PositionOK(position) ==
    /\ RGe(position.shares, Zero)
    /\ RGe(position.cost, Zero)
    /\ IF RGt(position.shares, Zero)
       THEN RMul(position.avg_price, position.shares) = position.cost
       ELSE position.avg_price = Zero

RECURSIVE Replay(_, _)
\* the shares and cost a log gives a position that starts at pos, buys
\* adding their cost and sells removing the sold fraction of the cost;
\* ok is lost at a sell of nothing or of more than is held
Replay(pos, log) ==
    IF log = <<>> THEN pos
    ELSE LET t == Head(log)
         IN  IF t.type = "buy"
             THEN Replay([pos EXCEPT !.shares = RAdd(@, t.shares),
                                     !.cost = RAdd(@, t.amount)], Tail(log))
             ELSE IF RGt(t.shares, Zero) /\ RGe(pos.shares, t.shares)
             THEN Replay([pos EXCEPT
                             !.shares = RSub(@, t.shares),
                             !.cost = RSub(@, RMul(@, RDiv(t.shares, pos.shares)))],
                         Tail(log))
             ELSE [pos EXCEPT !.ok = FALSE]

LedgerOf(log) == Replay([shares |-> Zero, cost |-> Zero, ok |-> TRUE], log)

Conserved(position, log) ==
    /\ PositionOK(position)
    /\ LedgerOf(log).ok
    /\ LedgerOf(log).shares = position.shares
    /\ LedgerOf(log).cost = position.cost

\* C8: after every buy and sell both positions have shares >= 0, cost >= 0,
\* avg_price x shares = cost when shares > 0 and avg_price = 0 otherwise;
\* every sell sells more than nothing and no more than is held, and takes
\* the sold fraction of the cost out of the position.
C8_LedgerConservation ==
    /\ Conserved(dca_position, dca_trades)
    /\ Conserved(t_position, t_trades)

\* a position sold in part and still held, and a position sold in whole
C8_Witness ==
    /\ Sells(dca_trades) # {}
    /\ RGt(dca_position.shares, Zero)
    /\ Sells(t_trades) # {}
    /\ t_position.shares = Zero

\* C9: in v1, v2 and DCA-only no sub-account's cash is ever negative.
C9_NoOverdraft ==
    /\ RGe(dca_cash, Zero)
    /\ RGe(t_cash, Zero)

\* the fee of a trade of gross amount A: A x rate, at least 5
Fee(A) ==
    IF RGt(RMul(A, params.commission), R(5, 1))
    THEN RMul(A, params.commission) ELSE R(5, 1)

\* C10: every buy is recorded at A + max(A x rate, 5) and every sell at
\* A - max(A x rate, 5), where A = shares x price of the trade.
C10_CommissionFloor ==
    \A i \in 1..Len(trades) :
        LET A == RMul(trades[i].shares, trades[i].price)
        IN  IF trades[i].type = "buy"
            THEN trades[i].amount = RAdd(A, Fee(A))
            ELSE trades[i].amount = RSub(A, Fee(A))

\* buys and sells on both sides of the break-even amount 5 / rate
C10_Witness ==
    \A type \in {"buy", "sell"} :
        /\ \E i \in 1..Len(trades) :
              /\ trades[i].type = type
              /\ RLt(RMul(RMul(trades[i].shares, trades[i].price),
                          params.commission), R(5, 1))
        /\ \E i \in 1..Len(trades) :
              /\ trades[i].type = type
              /\ RGt(RMul(RMul(trades[i].shares, trades[i].price),
                          params.commission), R(5, 1))

Buys(log) == {i \in 1..Len(log) : log[i].type = "buy"}

Today(log) == {i \in 1..Len(log) : log[i].date = today}

\* the accumulation cash before the bar just handled: what its first
\* accumulation trade found, or the cash as it stands when it made none
DcaCashBefore ==
    IF Today(dca_trades) = {} THEN dca_cash
    ELSE LET first == dca_trades[CHOOSE i \in Today(dca_trades) :
                                    \A j \in Today(dca_trades) : i <= j]
         IN  IF first.type = "buy"
             THEN RAdd(first.cash_after, first.amount)
             ELSE RSub(first.cash_after, first.amount)

\* the weekly contribution amount of the running variant on a bar
IntendedDcaAmount(bar) ==
    IF params.variant = "v2" THEN CalculateDynamicDcaAmount(params, bar)
    ELSE params.dca_amount_per_week

\* C12: a Monday bar that finds accumulation cash of at least the
\* contribution amount records an accumulation buy, whatever its (positive)
\* close; so W such Mondays record exactly W accumulation buys.
C12_WeeklyCount ==
    (/\ bars_fed > 0
     /\ today % 7 = 0
     /\ RGe(DcaCashBefore, IntendedDcaAmount(last_bar)))
    => \E i \in Today(dca_trades) : dca_trades[i].type = "buy"

\* (amount - commission) / slipped price, truncated to a whole number
PlainTruncation(amount, price) ==
    LET fee == IF RGt(RMul(amount, params.commission), R(5, 1))
               THEN RMul(amount, params.commission) ELSE R(5, 1)
    IN  R(Trunc(RDiv(RSub(amount, fee),
                     RMul(price, RAdd(One, params.slippage)))), 1)

IsLotMultiple(shares) == shares[2] = 1 /\ shares[1] % 100 = 0

\* C13: in v1 and v2 every tactical buy is of a multiple of 100 shares,
\* while every weekly accumulation buy is of the plain truncation of
\* (spendable amount / slipped price), with no rounding to lots.
C13_TwoRoundingRules ==
    IsTwoLeg =>
        /\ \A i \in Buys(t_trades) : IsLotMultiple(t_trades[i].shares)
        /\ \A i \in Buys(dca_trades) \cap Today(dca_trades) :
              dca_trades[i].shares =
                  PlainTruncation(IntendedDcaAmount(last_bar), dca_trades[i].price)

\* the bar's date has no row in the benchmark series
JoinMiss(bar) ==
    /\ bar.index_data.drop_2_rebound_03 = "nan"
    /\ bar.index_data.drop_1_rebound_02 = "nan"

\* the MACD-reversal entry rule, the one rule that reads no regime flag
MacdEntry(bar) ==
    /\ RLt(bar.macd_hist, Zero)
    /\ RGt(bar.macd_hist_prev, bar.macd_hist_prev2)
    /\ bar.is_yang

\* C15: on a bar whose date has no row in the benchmark series the regime
\* flags count as false: unless the MACD-reversal rule fires, the bar opens
\* no tactical position.
C15_JoinMiss ==
    (IsTwoLeg /\ bars_fed < MaxBars(feed)) =>
        \A bar \in Bars(params.variant, feed), gap \in DateGaps :
            (JoinMiss(bar) /\ ~MacdEntry(bar)) =>
                LET after == OnBarResult(bar, today + gap)
                IN  ~(/\ Len(after.t_trades) > Len(t_trades)
                      /\ Last(after.t_trades).type = "buy")

-----------------------------------------------------------------------------
(* Properties of the engine and of the batch drivers.                      *)

\* the provider has no row of the call's symbol / of the benchmark in the
\* call's date range
SymbolEmpty(c) == GetData(provider.data[c.symbol].dates, c.range) = <<>>
BenchmarkEmpty(c) == GetData(provider.index, c.range) = <<>>

\* C14: a run_backtest call whose symbol series or whose benchmark series is
\* empty fails without a single on_bar call: it never reaches the bar loop.
C14_DataUnavailable ==
    \A i \in 1..Len(calls) :
        (SymbolEmpty(calls[i]) \/ BenchmarkEmpty(calls[i])) =>
            /\ calls[i].outcome # "result"
            /\ calls[i].on_bar = <<>>

\* C16: over any sequence of run_backtest calls, sweeps included, the
\* benchmark series is fetched at most once per distinct (start, end).
C16_BenchmarkCache ==
    \A i \in 1..Len(index_fetches) : \A j \in 1..Len(index_fetches) :
        i < j => index_fetches[i] # index_fetches[j]

\* the dates of the symbol's rows inside the call's range
RowDates(c) ==
    {d \in provider.data[c.symbol].dates : c.range[1] <= d /\ d <= c.range[2]}

\* C17: a completed run hands every bar of the series to on_bar exactly once,
\* in ascending date order, and each on_bar call leaves one NAV row of its
\* date: as many on_bar calls and NAV rows as bars.
C17_BarOrdering ==
    \A i \in 1..Len(calls) :
        LET c == calls[i]
        IN  c.outcome = "result" =>
                /\ \A a \in 1..Len(c.on_bar) : \A b \in 1..Len(c.on_bar) :
                      a < b => c.on_bar[a] < c.on_bar[b]
                /\ Index(c.on_bar) = RowDates(c)
                /\ Len(c.on_bar) = Cardinality(RowDates(c))
                /\ c.result.data_points = Len(c.on_bar)
                /\ i = Len(calls) =>
                      /\ Len(daily_nav) = Len(c.on_bar)
                      /\ \A a \in 1..Len(c.on_bar) :
                            daily_nav[a].date = c.on_bar[a]

C17_Witness ==
    /\ calls # <<>>
    /\ Last(calls).outcome = "result"
    /\ Last(calls).on_bar = <<0, 1, 7>>
    /\ Len(daily_nav) = 3

\* a batch that has run every symbol submitted to it
BatchDone ==
    /\ driver \in {"run_multiple_backtests", "run_all_etf_backtests",
                   "run_v2_etf_backtest"}
    /\ pending = {}

\* C18: a batch runs every symbol whatever happens to the others, and when
\* it is through the successes and the failures add up to the symbols
\* submitted, each failure carrying its symbol and its reason.
C18_BatchIsolation ==
    BatchDone =>
        /\ Len(results) + Len(failed_symbols) = Len(Tasks)
        /\ \A i \in 1..Len(failed_symbols) :
              {"symbol", "error"} \subseteq DOMAIN failed_symbols[i]

\* the provider has no row of the symbol in the sweep's range
Unavailable(symbol) == GetData(provider.data[symbol].dates, SweepRange) = <<>>

\* C19: a symbol whose data is unavailable ends in the batch's failures and
\* never among its successes.
C19_UnavailableIsFailure ==
    BatchDone =>
        \A symbol \in Symbols :
            Unavailable(symbol) =>
                /\ \E i \in 1..Len(failed_symbols) :
                      failed_symbols[i].symbol = symbol
                /\ \A i \in 1..Len(results) :
                      NonEmpty(results[i]) /\ results[i].symbol # symbol

SummaryFields ==
    {"total_return", "final_value", "dca_buy_count", "dca_sell_count",
     "t_buy_count", "t_sell_count", "dca_cash", "t_cash", "dca_value",
     "t_value", "data_start_date", "data_end_date",
     "symbol", "symbol_type", "start_date", "end_date", "data_points"}

\* C20: with rows for the symbol in the range, run_backtest returns a result
\* that carries every summary field, whichever variant the engine was built
\* with, and the bars were evaluated by a fresh strategy of that variant.
C20_CompleteResult ==
    \A i \in 1..Len(calls) :
        LET c == calls[i]
        IN  (~SymbolEmpty(c) /\ provider.data[c.symbol].well_formed) =>
                /\ c.outcome = "result"
                /\ SummaryFields \subseteq DOMAIN c.result
                /\ c.evaluated_by = c.constructed

-----------------------------------------------------------------------------
(* Further properties of the strategies.                                   *)

NoEmptyTrade(log) == \A i \in 1..Len(log) : RGt(log[i].shares, Zero)

\* the tactical entry signal of the running variant
EntrySignal(bar) ==
    IF params.variant = "v1" THEN TEntrySignalV1(bar) ELSE TEntrySignalV2(bar)

\* the weekly contribution is due on the bar but sizes to no shares
WeeklySizedToNothing(bar, date) ==
    /\ Weekday(date) = 0
    /\ RGe(dca_cash, IntendedDcaAmount(bar))
    /\ ~RGt(CalculateShares(params, IntendedDcaAmount(bar), bar.close), Zero)

\* a tactical entry is signalled on the bar but sizes to no shares
EntrySizedToNothing(bar) ==
    /\ TFlat
    /\ EntrySignal(bar)
    /\ ~RGt(CalculateShares(params, IntendedTAmount(bar), bar.close), Zero)

\* C21: no trade of zero or fewer shares is ever logged; a weekly
\* contribution that sizes to no shares logs no buy and, when the bar sells
\* nothing either, leaves accumulation cash, position and the liquidation
\* counter as they were; a tactical entry that sizes to no shares leaves the
\* tactical log, cash and position (entry date included) as they were.
C21_SizingNoOp ==
    /\ NoEmptyTrade(trades)
    /\ NoEmptyTrade(dca_trades)
    /\ NoEmptyTrade(t_trades)
    /\ (IsTwoLeg /\ bars_fed < MaxBars(feed)) =>
          \A bar \in Bars(params.variant, feed), gap \in DateGaps :
              LET date == today + gap
                  after == OnBarResult(bar, date)
                  added == Added(dca_trades, after.dca_trades)
              IN  /\ WeeklySizedToNothing(bar, date) =>
                        /\ \A i \in 1..Len(added) : added[i].type # "buy"
                        /\ added = <<>> =>
                              /\ after.dca_cash = dca_cash
                              /\ after.dca_position = dca_position
                              /\ after.sell_count = sell_count
                  /\ EntrySizedToNothing(bar) =>
                        /\ after.t_trades = t_trades
                        /\ after.t_cash = t_cash
                        /\ after.t_position = t_position

\* a Monday bar is about to be fed on which the contribution is due and a
\* tactical entry is signalled and funded, and both size to no shares
C21_Witness ==
    /\ IsTwoLeg
    /\ bars_fed < MaxBars(feed)
    /\ \E bar \in Bars(params.variant, feed), gap \in DateGaps :
          /\ WeeklySizedToNothing(bar, today + gap)
          /\ EntrySizedToNothing(bar)
          /\ RGe(t_cash, IntendedTAmount(bar))

\* the weekly contribution is due on the bar and sizes to some shares
WeeklyDue(bar, date) ==
    /\ Weekday(date) = 0
    /\ RGe(dca_cash, IntendedDcaAmount(bar))
    /\ RGt(CalculateShares(params, IntendedDcaAmount(bar), bar.close), Zero)

\* C22: once the three partial liquidations have been made, a Monday bar that
\* finds accumulation cash of at least the contribution amount, and sizes it
\* to some shares, still records an accumulation buy.
C22_BuyingAfterSellCap ==
    (IsTwoLeg /\ sell_count >= MaxDcaSells /\ bars_fed < MaxBars(feed)) =>
        \A bar \in Bars(params.variant, feed), gap \in DateGaps :
            WeeklyDue(bar, today + gap) =>
                LET added == Added(dca_trades,
                                   OnBarResult(bar, today + gap).dca_trades)
                IN  \E i \in 1..Len(added) : added[i].type = "buy"

\* the cap was reached on an earlier bar and the last bar bought
C22_Witness ==
    /\ IsTwoLeg
    /\ sell_count = MaxDcaSells
    /\ \E i \in Today(dca_trades) : dca_trades[i].type = "buy"
    /\ Cardinality({i \in Sells(dca_trades) : dca_trades[i].date < today})
           = MaxDcaSells

\* the strategy as the weekly contribution of a bar fed next leaves it
PostBuy(bar, date) ==
    IF params.variant = "v1" THEN WeeklyBuyV1(params, Self, bar, date)
    ELSE WeeklyBuyV2(params, Self, bar, date)

\* the profit target of the accumulation exit on a bar
ExitProfitTarget(bar) ==
    IF params.variant = "v1" THEN R(2, 10)
    ELSE CalculateDynamicProfitTarget(params, bar)

\* C23: a bar makes a partial liquidation only if the unrealized profit
\* ratio (shares x close - cost) / cost of the accumulation position as it
\* stands after the bar's weekly buy exceeds the target.
C23_ExitUsesCurrentPosition ==
    (IsTwoLeg /\ bars_fed < MaxBars(feed)) =>
        \A bar \in Bars(params.variant, feed), gap \in DateGaps :
            LET date == today + gap
                added == Added(dca_trades, OnBarResult(bar, date).dca_trades)
            IN  (\E i \in 1..Len(added) : added[i].type = "sell") =>
                    RGt(ProfitRatio(PostBuy(bar, date).dca_position, bar.close),
                        ExitProfitTarget(bar))

\* ATR / close of a bar, and whether the bar has one
AtrRatio(bar) == RDiv(bar.atr, bar.close)
HasAtrRatio(bar) == RGt(bar.atr, Zero) /\ RGt(bar.close, Zero)

\* the contribution amount stays within 70%..115% of the base amount and
\* the stop-loss multiplier within 1.5..2.5
ScalingBounds(bar) ==
    LET amount == CalculateDynamicDcaAmount(params, bar)
        multiplier == CalculateDynamicStopLossMultiplier(bar)
    IN  /\ RGe(amount, RMul(params.base_dca_amount_per_week, R(70, 100)))
        /\ RGe(RMul(params.base_dca_amount_per_week, R(115, 100)), amount)
        /\ RGe(multiplier, R(15, 10))
        /\ RGe(R(25, 10), multiplier)

\* C24: in v2 the contribution amount and the stop-loss multiplier of a bar
\* stay within their bounds, and a bar with a higher ATR ratio than the bar
\* before it gets neither a larger contribution amount nor a larger
\* stop-loss multiplier.
C24_DynamicScaling ==
    (params.variant = "v2" /\ bars_fed > 0 /\ bars_fed < MaxBars(feed)) =>
        /\ ScalingBounds(last_bar)
        /\ \A bar \in Bars("v2", feed) :
              (/\ HasAtrRatio(bar) /\ HasAtrRatio(last_bar)
               /\ RGt(AtrRatio(bar), AtrRatio(last_bar))) =>
                  /\ RGe(CalculateDynamicDcaAmount(params, last_bar),
                         CalculateDynamicDcaAmount(params, bar))
                  /\ RGe(CalculateDynamicStopLossMultiplier(last_bar),
                         CalculateDynamicStopLossMultiplier(bar))

\* C24 as the code has it: the bounds hold; with a higher ATR ratio the
\* contribution amount does not grow, and the stop-loss multiplier does not
\* shrink (the stop is widened as volatility rises).
C24_DynamicScalingAmended ==
    (params.variant = "v2" /\ bars_fed > 0 /\ bars_fed < MaxBars(feed)) =>
        /\ ScalingBounds(last_bar)
        /\ \A bar \in Bars("v2", feed) :
              (/\ HasAtrRatio(bar) /\ HasAtrRatio(last_bar)
               /\ RGt(AtrRatio(bar), AtrRatio(last_bar))) =>
                  /\ RGe(CalculateDynamicDcaAmount(params, last_bar),
                         CalculateDynamicDcaAmount(params, bar))
                  /\ RGe(CalculateDynamicStopLossMultiplier(bar),
                         CalculateDynamicStopLossMultiplier(last_bar))

\* a bar of the lowest volatility band was fed and one of the highest can
\* follow
C24_Witness ==
    /\ params.variant = "v2"
    /\ bars_fed > 0
    /\ bars_fed < MaxBars(feed)
    /\ AtrBand(last_bar) = "low"
    /\ \E bar \in Bars("v2", feed) : AtrBand(bar) = "high"

\* the bar lies inside the windows of ATR, MA5 and the volume ratio
WarmingUp(bar) ==
    IsNaN(bar.atr) /\ IsNaN(bar.ma5) /\ IsNaN(bar.volume_ratio)

\* the bar carries a benchmark regime flag
Flagged(bar) ==
    \/ Truthy(bar.index_data.drop_2_rebound_03)
    \/ Truthy(bar.index_data.drop_1_rebound_02)

\* C25: a bar inside the warm-up windows of its indicators closes no
\* tactical position, opens none unless a benchmark flag calls for it, and
\* makes no partial liquidation of the accumulation position.
C25_NoActionOnWarmUp ==
    (IsTwoLeg /\ bars_fed < MaxBars(feed)) =>
        \A bar \in Bars(params.variant, feed), gap \in DateGaps :
            WarmingUp(bar) =>
                LET after == OnBarResult(bar, today + gap)
                    t_added == Added(t_trades, after.t_trades)
                    dca_added == Added(dca_trades, after.dca_trades)
                IN  /\ \A i \in 1..Len(t_added) :
                          /\ t_added[i].type # "sell"
                          /\ t_added[i].type = "buy" => Flagged(bar)
                    /\ \A i \in 1..Len(dca_added) : dca_added[i].type # "sell"

-----------------------------------------------------------------------------
(* Further properties of the engine and its drivers.                       *)

\* the call c made on an engine and a strategy nothing has run on before
Alone(c) ==
    RunBacktest(NewEngine, params, Constructed(params), provider,
                c.symbol, c.range)

\* C26: every run_backtest call starts from the initial ledger: what it
\* returns, and the ledger a completed run leaves, are those of the same
\* call on an engine nothing was run on before.
C26_FreshLedgerPerRun ==
    \A i \in 1..Len(calls) :
        \E alone \in {Alone(calls[i])} :
            /\ calls[i].outcome = alone.call.outcome
            /\ calls[i].result = alone.call.result
            /\ calls[i].on_bar = alone.call.on_bar
            /\ (i = Len(calls) /\ calls[i].outcome = "result") =>
                  Self = alone.strategy

\* a second completed run on an engine whose first run left trades
C26_Witness ==
    /\ driver = "run_backtest"
    /\ Len(calls) >= 2
    /\ calls[1].outcome = "result"
    /\ calls[1].result.dca_buy_count > 0
    /\ calls[2].outcome = "result"
    /\ calls[2].symbol # calls[1].symbol
    /\ trades # <<>>

PoolDriver ==
    driver \in {"run_all_etf_backtests", "run_v2_etf_backtest",
                "run_single_backtest"}

\* the symbols of a list of records
SymbolsOf(list) == {list[i].symbol : i \in 1..Len(list)}

\* the run of a symbol over the sweep's range with nothing run before it
AloneInSweep(symbol) == Alone([symbol |-> symbol, range |-> SweepRange])

-----------------------------------------------------------------------------
(* Further properties of the ledger.                                       *)

\* the number of trades of a type in a log
Count(log, type) == Cardinality({i \in 1..Len(log) : log[i].type = type})

\* C29: the tactical trades alternate buy, sell, buy, ...; every sell sells
\* all the shares of the buy before it; the buys are as many as the sells,
\* or one more exactly when tactical shares are held; and no two tactical
\* trades carry the date of one bar.
C29_TacticalAlternation ==
    IsTwoLeg =>
        /\ \A i \in 1..Len(t_trades) :
              /\ t_trades[i].type = IF i % 2 = 1 THEN "buy" ELSE "sell"
              /\ t_trades[i].type = "sell" =>
                    t_trades[i].shares = t_trades[i - 1].shares
        /\ Count(t_trades, "buy") - Count(t_trades, "sell") \in {0, 1}
        /\ Count(t_trades, "buy") - Count(t_trades, "sell") = 1
              <=> RGt(t_position.shares, Zero)
        /\ \A i \in 1..Len(t_trades) : \A j \in 1..Len(t_trades) :
              i < j => t_trades[i].date < t_trades[j].date

\* a tactical position opened on one bar and closed whole on a later one
C29_Witness ==
    /\ IsTwoLeg
    /\ Len(t_trades) = 2
    /\ t_trades[2].type = "sell"
    /\ t_trades[2].shares = t_trades[1].shares
    /\ t_trades[1].date < t_trades[2].date
    /\ t_position.shares = Zero

\* the cash a log leaves of an opening balance after its first n trades:
\* every buy takes its amount out, every sell puts its amount in
RECURSIVE CashOf(_, _, _)
CashOf(initial, log, n) ==
    IF n = 0 THEN initial
    ELSE IF log[n].type = "buy"
    THEN RSub(CashOf(initial, log, n - 1), log[n].amount)
    ELSE RAdd(CashOf(initial, log, n - 1), log[n].amount)

\* the account's cash is what its log leaves of its capital, and every trade
\* records the cash right after it
CashConserved(initial, cash, log) ==
    /\ cash = CashOf(initial, log, Len(log))
    /\ \A i \in 1..Len(log) : log[i].cash_after = CashOf(initial, log, i)

IsDcaTrade(t) == t.strategy = "dca"
IsTTrade(t) == t.strategy = "t"

\* the accumulation step and the tactical step of on_bar on a bar fed next
DcaStep(bar, date) ==
    IF params.variant = "v1" THEN ExecuteDcaLogicV1(params, Self, bar, date)
    ELSE ExecuteDcaLogicV2(params, Self, bar, date)

TStep(s, bar, date) ==
    IF params.variant = "v1" THEN ExecuteTLogicV1(params, s, bar, date)
    ELSE ExecuteTLogicV2(params, s, bar, date)

\* C30: each sub-account's cash is its initial capital less the amounts of
\* its buys plus the net amounts of its sells; every trade's cash_after is
\* its account's cash right after it; the accumulation step leaves the
\* tactical cash, position and log alone and the tactical step leaves the
\* accumulation ones alone; the combined log holds the trades of the two
\* account logs and no other.
C30_CashConservation ==
    IsTwoLeg =>
        /\ CashConserved(Constructed(params).dca_cash, dca_cash, dca_trades)
        /\ CashConserved(Constructed(params).t_cash, t_cash, t_trades)
        /\ SelectSeq(trades, IsDcaTrade) = dca_trades
        /\ SelectSeq(trades, IsTTrade) = t_trades
        /\ Len(trades) = Len(dca_trades) + Len(t_trades)
        /\ bars_fed < MaxBars(feed) =>
              \A bar \in Bars(params.variant, feed), gap \in DateGaps :
                  \E s1 \in {DcaStep(bar, today + gap)} :
                      \E s2 \in {TStep(s1, bar, today + gap)} :
                          /\ s1.t_cash = t_cash
                          /\ s1.t_position = t_position
                          /\ s1.t_trades = t_trades
                          /\ s2.dca_cash = s1.dca_cash
                          /\ s2.dca_position = s1.dca_position
                          /\ s2.dca_trades = s1.dca_trades

\* both accounts have bought and sold, on different balances
C30_Witness ==
    /\ IsTwoLeg
    /\ Count(dca_trades, "buy") > 0
    /\ Count(dca_trades, "sell") > 0
    /\ Count(t_trades, "buy") > 0
    /\ Count(t_trades, "sell") > 0
    /\ dca_cash # t_cash

=============================================================================
